---- MODULE Spec2Model ----
(***************************************************************************)
(* Model of Sources/CLegacyLibICU/shims.c: the two lookup shims            *)
(*   uatmufmt_getTimePattern  (shims.c:25-47)                              *)
(*   uatmufmt_getListPattern  (shims.c:48-80)                              *)
(* Each caller owns a status word and an output buffer; a call is executed *)
(* statement by statement, so that calls of several callers interleave on  *)
(* the shared pool of resource bundle handles.  The library functions the  *)
(* shims call (ures_open, ures_getByKeyWithFallback, ures_getString-       *)
(* ByKeyWithFallback, u_strncpy, ures_close, u_terminateUChars) are        *)
(* modelled by their contract; the resource data is a small fixture.       *)
(***************************************************************************)
EXTENDS Integers, Sequences, FiniteSets, TLC

\* ------------------------------------------------------------------ bounds
NumCallers == 2
MaxCap == 3

Callers == 1..NumCallers
Handles == 1..NumCallers
NULL == 0

\* ------------------------------------------------------- UErrorCode values
U_ZERO_ERROR == 0
U_ILLEGAL_ARGUMENT_ERROR == 1
U_MISSING_RESOURCE_ERROR == 2
U_BUFFER_OVERFLOW_ERROR == 15
U_RESOURCE_TYPE_MISMATCH == 17
U_STRING_NOT_TERMINATED_WARNING == -124
U_USING_DEFAULT_WARNING == -127
U_USING_FALLBACK_WARNING == -128

U_FAILURE(code) == code > U_ZERO_ERROR
U_SUCCESS(code) == code <= U_ZERO_ERROR

\* ---------------------------------------------------------- the selectors
TimePatterns == {"UATIMEUNITTIMEPAT_HM", "UATIMEUNITTIMEPAT_HMS",
                 "UATIMEUNITTIMEPAT_MS", "UATIMEUNITTIMEPAT_COUNT"}
Styles == {"UATIMEUNITSTYLE_FULL", "UATIMEUNITSTYLE_ABBREVIATED",
           "UATIMEUNITSTYLE_NARROW", "UATIMEUNITSTYLE_SHORTER",
           "UATIMEUNITSTYLE_COUNT"}
ListPatterns == {"UATIMEUNITLISTPAT_TWO_ONLY", "UATIMEUNITLISTPAT_END_PIECE",
                 "UATIMEUNITLISTPAT_MIDDLE_PIECE", "UATIMEUNITLISTPAT_START_PIECE",
                 "UATIMEUNITLISTPAT_COUNT"}
NoSelector == "-"

\* ------------------------------------------------- shim code, line by line
\* mutant: the entry check is missing
EntryFailed_missing(st) == FALSE

\* if (U_FAILURE(*status)) { return 0; }
EntryFailed(st) == U_FAILURE(st)

\* mutant: a NULL buffer is refused for a positive capacity only
BadBufferArgs_positiveOnly(result, cap) == IF result = "NULL" THEN cap > 0 ELSE cap < 0

\* if (result == NULL ? resultCapacity != 0 : resultCapacity < 0)
BadBufferArgs(result, cap) == IF result = "NULL" THEN cap # 0 ELSE cap < 0

\* switch (type) of uatmufmt_getTimePattern; "" is the default: branch
TimeKey(type) ==
    CASE type = "UATIMEUNITTIMEPAT_HM"  -> "hm"
      [] type = "UATIMEUNITTIMEPAT_HMS" -> "hms"
      [] type = "UATIMEUNITTIMEPAT_MS"  -> "ms"
      [] OTHER -> ""

\* mutant: SHORTER reads the abbreviated patterns
StyleKey_shorterIsShort(style) ==
    CASE style = "UATIMEUNITSTYLE_FULL"        -> "unit"
      [] style = "UATIMEUNITSTYLE_ABBREVIATED" -> "unit-short"
      [] style = "UATIMEUNITSTYLE_NARROW"      -> "unit-narrow"
      [] style = "UATIMEUNITSTYLE_SHORTER"     -> "unit-short"
      [] OTHER -> ""

\* switch (style) of uatmufmt_getListPattern
StyleKey(style) ==
    CASE style = "UATIMEUNITSTYLE_FULL"        -> "unit"
      [] style = "UATIMEUNITSTYLE_ABBREVIATED" -> "unit-short"
      [] style = "UATIMEUNITSTYLE_NARROW"      -> "unit-narrow"
      [] style = "UATIMEUNITSTYLE_SHORTER"     -> "unit-narrow"
      [] OTHER -> ""

\* mutant: the switch has no default: branch, an unknown position reads "start"
TypeKey_noDefault(type) ==
    CASE type = "UATIMEUNITLISTPAT_TWO_ONLY"     -> "2"
      [] type = "UATIMEUNITLISTPAT_END_PIECE"    -> "end"
      [] type = "UATIMEUNITLISTPAT_MIDDLE_PIECE" -> "middle"
      [] OTHER -> "start"

\* switch (type) of uatmufmt_getListPattern
TypeKey(type) ==
    CASE type = "UATIMEUNITLISTPAT_TWO_ONLY"     -> "2"
      [] type = "UATIMEUNITLISTPAT_END_PIECE"    -> "end"
      [] type = "UATIMEUNITLISTPAT_MIDDLE_PIECE" -> "middle"
      [] type = "UATIMEUNITLISTPAT_START_PIECE"  -> "start"
      [] OTHER -> ""

\* ures_open(U_ICUDATA_UNIT, ...) and ures_open(NULL, ...)
TimePackage == "icudt-unit"
ListPackage == "icudt"
\* mutant: a misspelt table key
TimeTableKey_misspelt == "durationUnit"

\* the first key each function descends into
TimeTableKey == "durationUnits"
ListTableKey == "listPattern"

\* mutant: one unit of the capacity is held back for a terminator
CopyLimit_minusOne(cap) == cap - 1
\* mutant: the terminator's place is added to the capacity
CopyLimit_plusOne(cap) == cap + 1

\* u_strncpy(result, resPtr, resultCapacity): the count handed over
CopyLimit(cap) == cap
\* mutant: the copy is not guarded by the status
CopyGuard_always(st) == TRUE

\* if (U_SUCCESS(*status)) { u_strncpy(...) }
CopyGuard(st) == U_SUCCESS(st)
\* mutant: the terminator's place is counted into the length
TerminateLength_plusOne(resLen) == resLen + 1

\* u_terminateUChars(result, resultCapacity, resLen, status): the length handed over
TerminateLength(resLen) == resLen
\* rb = ures_getByKeyWithFallback(rb, key, rb, status): the fill-in handle
FillIn(rb) == rb


\* ------------------------------------------------- the resource data store
\* Three data installations: "cldr" (populated), "bare" (bundles without the
\* pattern tables) and "nodata" (no bundle can be loaded).
Stores == {"cldr", "bare", "nodata"}
Locales == {"en_US", "en", "fr", "root"}

Parent(loc) ==
    CASE loc = "en_US" -> "en"
      [] loc = "en"    -> "root"
      [] loc = "fr"    -> "root"
      [] OTHER -> ""

\* the locale and its ancestors, most specific first, ending at root
RECURSIVE Chain(_)
Chain(loc) == IF loc = "" THEN <<>> ELSE <<loc>> \o Chain(Parent(loc))

E(st, pkg, loc, path, str) ==
    [store |-> st, pkg |-> pkg, loc |-> loc, path |-> path, str |-> str]

\* the bundles that exist, per installation and package
BundleFiles ==
    {<<"cldr", TimePackage, "root">>, <<"cldr", TimePackage, "en">>,
     <<"cldr", TimePackage, "fr">>,
     <<"cldr", ListPackage, "root">>, <<"cldr", ListPackage, "en">>,
     <<"cldr", ListPackage, "en_US">>, <<"cldr", ListPackage, "fr">>,
     <<"bare", TimePackage, "root">>, <<"bare", ListPackage, "root">>,
     <<"bare", ListPackage, "en">>}

\* the string resources, each at its key path
Data ==
    {E("cldr", TimePackage, "root",  <<"durationUnits", "hm">>,  <<5>>),
     E("cldr", TimePackage, "root",  <<"durationUnits", "hms">>, <<6, 7>>),
     E("cldr", TimePackage, "root",  <<"listPattern", "unit", "2">>, <<40>>),
     E("cldr", TimePackage, "en",    <<"durationUnits", "hm">>,  <<8, 9>>),
     E("cldr", TimePackage, "en",    <<"durationUnits", "ms">>,  <<>>),
     E("cldr", TimePackage, "fr",    <<"units", "duration">>,    <<42>>),
     E("cldr", ListPackage, "root",  <<"durationUnits", "hm">>,  <<41>>),
     E("cldr", ListPackage, "root",  <<"listPattern", "unit", "2">>,      <<10>>),
     E("cldr", ListPackage, "root",  <<"listPattern", "unit", "end">>,    <<11, 12>>),
     E("cldr", ListPackage, "root",  <<"listPattern", "unit", "middle">>, <<13>>),
     E("cldr", ListPackage, "root",  <<"listPattern", "unit", "start">>,  <<14>>),
     E("cldr", ListPackage, "root",  <<"listPattern", "unit-narrow", "2">>,   <<15>>),
     E("cldr", ListPackage, "root",  <<"listPattern", "unit-narrow", "end">>, <<16>>),
     E("cldr", ListPackage, "en",    <<"listPattern", "unit-short", "2">>,      <<17>>),
     E("cldr", ListPackage, "en",    <<"listPattern", "unit-short", "end">>,    <<18>>),
     E("cldr", ListPackage, "en",    <<"listPattern", "unit-short", "middle">>, <<19, 20>>),
     E("cldr", ListPackage, "en",    <<"listPattern", "unit-short", "start">>,  <<21>>),
     E("cldr", ListPackage, "en",    <<"listPattern", "unit", "2">>,            <<22>>),
     E("cldr", ListPackage, "en_US", <<"listPattern", "unit-short", "2">>,      <<23>>),
     E("cldr", ListPackage, "fr",    <<"listPattern", "unit-narrow", "middle">>, <<24>>),
     E("bare", TimePackage, "root",  <<"units", "duration">>, <<30>>),
     E("bare", ListPackage, "root",  <<"Version">>, <<31>>),
     E("bare", ListPackage, "en",    <<"Version">>, <<32>>)}

IsPrefix(p, q) == Len(p) <= Len(q) /\ SubSeq(q, 1, Len(p)) = p

HasBundle(st, pkg, loc) == <<st, pkg, loc>> \in BundleFiles
EntriesOf(st, pkg, loc) == {e \in Data : e.store = st /\ e.pkg = pkg /\ e.loc = loc}
\* a resource (table or string) exists at path in this bundle's own data
HasPath(st, pkg, loc, path) ==
    HasBundle(st, pkg, loc)
    /\ (path = <<>> \/ \E e \in EntriesOf(st, pkg, loc) : IsPrefix(path, e.path))
IsString(st, pkg, loc, path) == \E e \in EntriesOf(st, pkg, loc) : e.path = path
IsTable(st, pkg, loc, path) == HasPath(st, pkg, loc, path) /\ ~IsString(st, pkg, loc, path)
StringAt(st, pkg, loc, path) ==
    (CHOOSE e \in EntriesOf(st, pkg, loc) : e.path = path).str

\* first element of a chain that satisfies Has, "" when none does
RECURSIVE FirstIn(_, _, _, _, _)
FirstIn(chain, st, pkg, path, needBundleOnly) ==
    IF chain = <<>> THEN ""
    ELSE IF (IF needBundleOnly THEN HasBundle(st, pkg, Head(chain))
             ELSE HasPath(st, pkg, Head(chain), path))
         THEN Head(chain)
         ELSE FirstIn(Tail(chain), st, pkg, path, needBundleOnly)

\* the warning a lookup leaves when the data came from an ancestor
FallbackStatus(found, asked, status) ==
    IF found = asked THEN status
    ELSE IF found = "root" THEN U_USING_DEFAULT_WARNING
    ELSE U_USING_FALLBACK_WARNING

\* a resource bundle handle's content; NoBundle is the content of a free slot
NoBundle == [open |-> FALSE, owner |-> NULL, pkg |-> "", loc |-> "", path |-> <<>>]

\* ures_open(path, locale, status): the bundle of the locale or of its nearest
\* ancestor that has one; [ok, loc, status]
ures_open(st, pkg, locale, status) ==
    IF U_FAILURE(status) THEN [ok |-> FALSE, loc |-> "", status |-> status]
    ELSE LET found == FirstIn(Chain(locale), st, pkg, <<>>, TRUE)
         IN IF found = ""
            THEN [ok |-> FALSE, loc |-> "", status |-> U_MISSING_RESOURCE_ERROR]
            ELSE [ok |-> TRUE, loc |-> found,
                  status |-> FallbackStatus(found, locale, status)]

\* ures_getByKeyWithFallback(resB, inKey, fillIn, status) on the content b of
\* resB (isNull: resB == NULL): [hit, b, status]; on a hit b is the content
\* the fill-in receives, otherwise the fill-in is left as it was
ures_getByKeyWithFallback(st, isNull, b, inKey, status) ==
    IF U_FAILURE(status) THEN [hit |-> FALSE, b |-> b, status |-> status]
    ELSE IF isNull THEN [hit |-> FALSE, b |-> b, status |-> U_ILLEGAL_ARGUMENT_ERROR]
    ELSE IF ~IsTable(st, b.pkg, b.loc, b.path)
         THEN [hit |-> FALSE, b |-> b, status |-> U_RESOURCE_TYPE_MISMATCH]
    ELSE LET target == Append(b.path, inKey)
             found == FirstIn(Chain(b.loc), st, b.pkg, target, FALSE)
         IN IF found = ""
            THEN [hit |-> FALSE, b |-> b, status |-> U_MISSING_RESOURCE_ERROR]
            ELSE [hit |-> TRUE, b |-> [b EXCEPT !.loc = found, !.path = target],
                  status |-> FallbackStatus(found, b.loc, status)]

\* a UChar string in memory: its code units and the terminating NUL
CString(s) == s \o <<0>>

\* ures_getStringByKeyWithFallback(resB, inKey, &len, status): [ptr, len, status];
\* ptr is <<>> for NULL, and len is the caller's value when nothing was found
ures_getStringByKeyWithFallback(st, isNull, b, inKey, len, status) ==
    LET r == ures_getByKeyWithFallback(st, isNull, b, inKey, status)
    IN IF U_FAILURE(r.status) THEN [ptr |-> <<>>, len |-> len, status |-> r.status]
       ELSE IF ~IsString(st, r.b.pkg, r.b.loc, r.b.path)
            THEN [ptr |-> <<>>, len |-> len, status |-> U_RESOURCE_TYPE_MISMATCH]
       ELSE LET s == StringAt(st, r.b.pkg, r.b.loc, r.b.path)
            IN [ptr |-> CString(s), len |-> Len(s), status |-> r.status]

\* ----------------------------------------------------------- UChar buffers
\* a buffer is [mem, fault]: mem the allocated code units (<<>> for NULL),
\* fault set by a store outside the allocation
Poke(d, i, v) ==
    IF i + 1 \in 1..Len(d.mem)
    THEN [d EXCEPT !.mem[i + 1] = v]
    ELSE [d EXCEPT !.fault = TRUE]

\* u_strncpy(dst, src, n): while (n > 0 && (*(dst++) = *(src++)) != 0) --n;
\* a read of a NULL source or past the string's NUL is a fault as well
RECURSIVE StrNCpyFrom(_, _, _, _)
StrNCpyFrom(d, src, n, i) ==
    IF n > 0
    THEN IF i + 1 > Len(src) THEN [d EXCEPT !.fault = TRUE]
         ELSE IF src[i + 1] # 0
         THEN StrNCpyFrom(Poke(d, i, src[i + 1]), src, n - 1, i + 1)
         ELSE Poke(d, i, 0)
    ELSE d
u_strncpy(d, src, n) == StrNCpyFrom(d, src, n, 0)

\* u_terminateUChars(dest, destCapacity, length, pErrorCode): [d, status, ret]
u_terminateUChars(d, destCapacity, length, status) ==
    IF U_SUCCESS(status)
    THEN IF length < 0 THEN [d |-> d, status |-> status, ret |-> length]
         ELSE IF length < destCapacity
              THEN [d |-> Poke(d, length, 0),
                    status |-> IF status = U_STRING_NOT_TERMINATED_WARNING
                               THEN U_ZERO_ERROR ELSE status,
                    ret |-> length]
         ELSE IF length = destCapacity
              THEN [d |-> d, status |-> U_STRING_NOT_TERMINATED_WARNING, ret |-> length]
         ELSE [d |-> d, status |-> U_BUFFER_OVERFLOW_ERROR, ret |-> length]
    ELSE [d |-> d, status |-> status, ret |-> length]


\* ------------------------------------------------------------------- state
VARIABLES
    store,    \* the data installation (immutable)
    heap,     \* handle -> content of the UResourceBundle allocated there
    misuse,   \* a handle was used or closed while not open, or by a non-owner
    pc,       \* caller -> the statement its call is at ("idle", "done", "held" outside)
    arg,      \* caller -> the arguments of its current or last call
    status,   \* caller -> *status, the caller's UErrorCode word
    buf,      \* caller -> the memory behind result: [mem, fault]
    loc,      \* caller -> the call's locals: key, styleKey, typeKey, rb, resLen, resPtr
    ret,      \* caller -> the value its last call returned
    note,     \* caller -> bookkeeping of the call: status on entry, ures_open calls,
              \*           handles opened, handles closed
    pre       \* caller -> the preflight call a refill call follows, if any

vars == <<store, heap, misuse, pc, arg, status, buf, loc, ret, note, pre>>

Functions == {"uatmufmt_getTimePattern", "uatmufmt_getListPattern"}
Capacities == (-1)..MaxCap

\* the memory a caller passes: MaxCap unwritten code units (-1), or nothing for NULL
FreshBuf(result) ==
    [mem |-> IF result = "NULL" THEN <<>> ELSE [i \in 1..MaxCap |-> -1],
     fault |-> FALSE]

NoLocals == [key |-> "", styleKey |-> "", typeKey |-> "", rb |-> NULL,
             resLen |-> 0, resPtr |-> <<>>]
NoArg == [fn |-> "uatmufmt_getTimePattern", locale |-> "root",
          type |-> "UATIMEUNITTIMEPAT_HM", style |-> NoSelector,
          result |-> "NULL", cap |-> 0]
NoPre == [on |-> FALSE, ret |-> 0, entry |-> U_ZERO_ERROR]

\* every argument combination of the two entry points
AllArgs ==
    [fn : {"uatmufmt_getTimePattern"}, locale : Locales, type : TimePatterns,
     style : {NoSelector}, result : {"NULL", "BUF"}, cap : Capacities]
    \cup
    [fn : {"uatmufmt_getListPattern"}, locale : Locales, type : ListPatterns,
     style : Styles, result : {"NULL", "BUF"}, cap : Capacities]

\* the argument combinations of concurrent callers: one for every path
\* through the two functions
ConcArgs ==
    {a \in AllArgs :
        \/ /\ a.fn = "uatmufmt_getTimePattern" /\ a.locale = "en_US"
           /\ \/ a.type = "UATIMEUNITTIMEPAT_HM" /\ a.result = "BUF" /\ a.cap \in {1, MaxCap}
              \/ a.type = "UATIMEUNITTIMEPAT_HM" /\ a.result = "NULL" /\ a.cap = 1
              \/ a.type = "UATIMEUNITTIMEPAT_COUNT" /\ a.result = "BUF" /\ a.cap = 1
        \/ /\ a.fn = "uatmufmt_getTimePattern" /\ a.locale = "fr"
           /\ a.type = "UATIMEUNITTIMEPAT_MS" /\ a.result = "BUF" /\ a.cap = 1
        \/ /\ a.fn = "uatmufmt_getListPattern" /\ a.type = "UATIMEUNITLISTPAT_TWO_ONLY"
           /\ \/ a.locale = "fr" /\ a.style = "UATIMEUNITSTYLE_ABBREVIATED"
                 /\ a.result = "BUF" /\ a.cap = 1
              \/ a.locale = "en_US" /\ a.style = "UATIMEUNITSTYLE_NARROW"
                 /\ a.result = "BUF" /\ a.cap = MaxCap
              \/ a.locale = "en_US" /\ a.style = "UATIMEUNITSTYLE_FULL"
                 /\ a.result = "NULL" /\ a.cap = 0}

Init ==
    /\ store \in Stores
    /\ heap = [h \in Handles |-> NoBundle]
    /\ misuse = FALSE
    /\ pc = [c \in Callers |-> "idle"]
    /\ arg = [c \in Callers |-> NoArg]
    /\ status = [c \in Callers |-> U_ZERO_ERROR]
    /\ buf = [c \in Callers |-> FreshBuf("NULL")]
    /\ loc = [c \in Callers |-> NoLocals]
    /\ ret = [c \in Callers |-> 0]
    /\ note = [c \in Callers |-> [entry |-> U_ZERO_ERROR, opens |-> 0, opened |-> 0, closed |-> 0]]
    /\ pre = [c \in Callers |-> NoPre]

Resting(c) == pc[c] \in {"idle", "done", "held"}

\* ------------------------------------------------------------- the callers
\* a caller enters one of the two functions with arguments a
Enter(c, a, p) ==
    /\ pc' = [pc EXCEPT ![c] = "entry"]
    /\ arg' = [arg EXCEPT ![c] = a]
    /\ buf' = [buf EXCEPT ![c] = FreshBuf(a.result)]
    /\ loc' = [loc EXCEPT ![c] = NoLocals]
    /\ ret' = [ret EXCEPT ![c] = 0]
    /\ note' = [note EXCEPT ![c] = [entry |-> status[c], opens |-> 0, opened |-> 0, closed |-> 0]]
    /\ pre' = [pre EXCEPT ![c] = p]
    /\ UNCHANGED <<store, heap, misuse, status>>

BeginCall(c) == pc[c] = "idle" /\ \E a \in AllArgs : Enter(c, a, NoPre)

BeginCallConc(c) == pc[c] = "idle" /\ \E a \in ConcArgs : Enter(c, a, NoPre)

\* the caller has consumed the result of its call and drops the buffer
Finish(c) ==
    /\ pc[c] \in {"done", "held"}
    /\ pc' = [pc EXCEPT ![c] = "idle"]
    /\ arg' = [arg EXCEPT ![c] = NoArg]
    /\ buf' = [buf EXCEPT ![c] = FreshBuf("NULL")]
    /\ loc' = [loc EXCEPT ![c] = NoLocals]
    /\ ret' = [ret EXCEPT ![c] = 0]
    /\ note' = [note EXCEPT ![c] = [entry |-> U_ZERO_ERROR, opens |-> 0, opened |-> 0, closed |-> 0]]
    /\ pre' = [pre EXCEPT ![c] = NoPre]
    /\ UNCHANGED <<store, heap, misuse, status>>

\* phase 2 of the preflight convention: after a call with capacity 0, call
\* again with the same selectors and a buffer of the returned length
Refill(c) ==
    /\ pc[c] \in {"done", "held"}
    /\ arg[c].cap = 0
    /\ ret[c] \in 0..MaxCap
    /\ Enter(c, [arg[c] EXCEPT !.result = "BUF", !.cap = ret[c]],
             [on |-> TRUE, ret |-> ret[c], entry |-> note[c].entry])

\* the caller clears its status word between calls; after a call it has then
\* taken note of the outcome and holds the result ("held")
ResetStatus(c) ==
    /\ Resting(c)
    /\ status[c] # U_ZERO_ERROR
    /\ status' = [status EXCEPT ![c] = U_ZERO_ERROR]
    /\ pc' = [pc EXCEPT ![c] = IF pc[c] = "idle" THEN "idle" ELSE "held"]
    /\ UNCHANGED <<store, heap, misuse, arg, buf, loc, ret, note, pre>>

\* --------------------------------------------------- the shims, by statement
Goto(c, l) == pc' = [pc EXCEPT ![c] = l]
Return(c, v) == pc' = [pc EXCEPT ![c] = "done"] /\ ret' = [ret EXCEPT ![c] = v]
IsTime(c) == arg[c].fn = "uatmufmt_getTimePattern"

\* if (U_FAILURE(*status)) { return 0; }
Entry(c) ==
    /\ pc[c] = "entry"
    /\ IF EntryFailed(status[c])
       THEN Return(c, 0)
       ELSE Goto(c, "validate") /\ UNCHANGED ret
    /\ UNCHANGED <<store, heap, misuse, arg, status, buf, loc, note, pre>>

\* if (result == NULL ? resultCapacity != 0 : resultCapacity < 0) { ... return 0; }
Validate(c) ==
    /\ pc[c] = "validate"
    /\ IF BadBufferArgs(arg[c].result, arg[c].cap)
       THEN /\ status' = [status EXCEPT ![c] = U_ILLEGAL_ARGUMENT_ERROR]
            /\ Return(c, 0)
       ELSE Goto(c, "select") /\ UNCHANGED <<status, ret>>
    /\ UNCHANGED <<store, heap, misuse, arg, buf, loc, note, pre>>

\* the switch statements mapping the selectors to keys
Select(c) ==
    /\ pc[c] = "select"
    /\ LET key == IF IsTime(c) THEN TimeKey(arg[c].type) ELSE ""
           styleKey == IF IsTime(c) THEN "" ELSE StyleKey(arg[c].style)
           typeKey == IF IsTime(c) \/ styleKey = "" THEN "" ELSE TypeKey(arg[c].type)
           bad == IF IsTime(c) THEN key = "" ELSE styleKey = "" \/ typeKey = ""
       IN /\ loc' = [loc EXCEPT ![c].key = key, ![c].styleKey = styleKey,
                                ![c].typeKey = typeKey]
          /\ IF bad
             THEN /\ status' = [status EXCEPT ![c] = U_ILLEGAL_ARGUMENT_ERROR]
                  /\ Return(c, 0)
             ELSE Goto(c, "open") /\ UNCHANGED <<status, ret>>
    /\ UNCHANGED <<store, heap, misuse, arg, buf, note, pre>>

\* UResourceBundle* rb = ures_open(U_ICUDATA_UNIT or NULL, locale, status);
Open(c) ==
    /\ pc[c] = "open"
    /\ LET r == ures_open(store, IF IsTime(c) THEN TimePackage ELSE ListPackage,
                          arg[c].locale, status[c])
       IN /\ status' = [status EXCEPT ![c] = r.status]
          /\ IF r.ok
             THEN \E h \in Handles :
                    /\ ~heap[h].open
                    /\ heap' = [heap EXCEPT ![h] =
                                  [open |-> TRUE, owner |-> c,
                                   pkg |-> IF IsTime(c) THEN TimePackage ELSE ListPackage,
                                   loc |-> r.loc, path |-> <<>>]]
                    /\ loc' = [loc EXCEPT ![c].rb = h]
                    /\ note' = [note EXCEPT ![c].opens = @ + 1, ![c].opened = @ + 1]
             ELSE /\ note' = [note EXCEPT ![c].opens = @ + 1]
                  /\ UNCHANGED <<heap, loc>>
    /\ Goto(c, "descend1")
    /\ UNCHANGED <<store, misuse, arg, buf, ret, pre>>

\* a caller touches handle h: legal only on an open handle it owns
Misused(c, h) == h # NULL /\ (~heap[h].open \/ heap[h].owner # c)

\* rb = ures_getByKeyWithFallback(rb, key, rb, status);
Descend(c, key, next) ==
    LET rb == loc[c].rb
        b == IF rb = NULL THEN NoBundle ELSE heap[rb]
        r == ures_getByKeyWithFallback(store, rb = NULL, b, key, status[c])
        fill == FillIn(rb)
    IN /\ status' = [status EXCEPT ![c] = r.status]
       /\ misuse' = (misuse \/ (U_SUCCESS(status[c]) /\ Misused(c, rb))
                            \/ (r.hit /\ Misused(c, fill)))
       /\ heap' = IF r.hit /\ fill # NULL
                  THEN [heap EXCEPT ![fill] = [r.b EXCEPT !.open = heap[fill].open,
                                                          !.owner = heap[fill].owner]]
                  ELSE heap
       /\ loc' = [loc EXCEPT ![c].rb = fill]
       /\ Goto(c, next)
       /\ UNCHANGED <<store, arg, buf, ret, note, pre>>

\* ... (rb, "durationUnits", ...) and ... (rb, "listPattern", ...)
Descend1(c) ==
    /\ pc[c] = "descend1"
    /\ Descend(c, IF IsTime(c) THEN TimeTableKey ELSE ListTableKey,
               IF IsTime(c) THEN "getstr" ELSE "descend2")

\* ... (rb, styleKey, ...), uatmufmt_getListPattern only
Descend2(c) ==
    /\ pc[c] = "descend2"
    /\ Descend(c, loc[c].styleKey, "getstr")

\* resPtr = ures_getStringByKeyWithFallback(rb, key or typeKey, &resLen, status);
\* (the bundle the library uses for the leaf lives on its own stack and is
\* gone when it returns; rb is read, not refilled)
GetString(c) ==
    /\ pc[c] = "getstr"
    /\ LET rb == loc[c].rb
           b == IF rb = NULL THEN NoBundle ELSE heap[rb]
           r == ures_getStringByKeyWithFallback(store, rb = NULL, b,
                    IF IsTime(c) THEN loc[c].key ELSE loc[c].typeKey,
                    loc[c].resLen, status[c])
       IN /\ status' = [status EXCEPT ![c] = r.status]
          /\ misuse' = (misuse \/ (U_SUCCESS(status[c]) /\ Misused(c, rb)))
          /\ loc' = [loc EXCEPT ![c].resPtr = r.ptr, ![c].resLen = r.len]
    /\ Goto(c, "copy")
    /\ UNCHANGED <<store, heap, arg, buf, ret, note, pre>>

\* if (U_SUCCESS(*status)) { u_strncpy(result, resPtr, resultCapacity); }
Copy(c) ==
    /\ pc[c] = "copy"
    /\ buf' = [buf EXCEPT ![c] =
                IF CopyGuard(status[c])
                THEN u_strncpy(buf[c], loc[c].resPtr, CopyLimit(arg[c].cap))
                ELSE buf[c]]
    /\ Goto(c, "close")
    /\ UNCHANGED <<store, heap, misuse, arg, status, loc, ret, note, pre>>

\* mutant: the handle is not closed
Close_forgotten(c) ==
    /\ pc[c] = "close"
    /\ Goto(c, "terminate")
    /\ UNCHANGED <<store, heap, misuse, arg, status, buf, loc, ret, note, pre>>

\* ures_close(rb);
Close(c) ==
    /\ pc[c] = "close"
    /\ LET rb == loc[c].rb
       IN IF rb = NULL
          THEN UNCHANGED <<heap, misuse, note>>
          ELSE /\ misuse' = (misuse \/ Misused(c, rb))
               /\ heap' = IF Misused(c, rb) THEN heap
                          ELSE [heap EXCEPT ![rb] = NoBundle]
               /\ note' = [note EXCEPT ![c].closed = @ + 1]
    /\ Goto(c, "terminate")
    /\ UNCHANGED <<store, arg, status, buf, loc, ret, pre>>

\* return u_terminateUChars(result, resultCapacity, resLen, status);
Terminate(c) ==
    /\ pc[c] = "terminate"
    /\ LET r == u_terminateUChars(buf[c], arg[c].cap,
                                  TerminateLength(loc[c].resLen), status[c])
       IN /\ buf' = [buf EXCEPT ![c] = r.d]
          /\ status' = [status EXCEPT ![c] = r.status]
          /\ Return(c, r.ret)
    /\ UNCHANGED <<store, heap, misuse, arg, loc, note, pre>>

Step(c) ==
    \/ Entry(c) \/ Validate(c) \/ Select(c) \/ Open(c) \/ Descend1(c)
    \/ Descend2(c) \/ GetString(c) \/ Copy(c) \/ Close(c) \/ Terminate(c)

\* one caller, every argument combination, the two-phase convention
Next == BeginCall(1) \/ Refill(1) \/ ResetStatus(1) \/ Finish(1) \/ Step(1)
Spec == Init /\ [][Next]_vars

\* concurrent callers
NextConc == \E c \in Callers : BeginCallConc(c) \/ ResetStatus(c) \/ Finish(c) \/ Step(c)
SpecConc == Init /\ [][NextConc]_vars


\* ====================================================================
\* What the lookups are to deliver, stated from the data alone
\* ====================================================================
ValidBuffer(a) == IF a.result = "NULL" THEN a.cap = 0 ELSE a.cap >= 0
ValidSelector(a) ==
    IF a.fn = "uatmufmt_getTimePattern"
    THEN a.type \in {"UATIMEUNITTIMEPAT_HM", "UATIMEUNITTIMEPAT_HMS", "UATIMEUNITTIMEPAT_MS"}
    ELSE /\ a.style \in {"UATIMEUNITSTYLE_FULL", "UATIMEUNITSTYLE_ABBREVIATED",
                         "UATIMEUNITSTYLE_NARROW", "UATIMEUNITSTYLE_SHORTER"}
         /\ a.type \in {"UATIMEUNITLISTPAT_TWO_ONLY", "UATIMEUNITLISTPAT_END_PIECE",
                        "UATIMEUNITLISTPAT_MIDDLE_PIECE", "UATIMEUNITLISTPAT_START_PIECE"}

\* the key path and the package a valid call is to read
WantedPackage(a) ==
    IF a.fn = "uatmufmt_getTimePattern" THEN "icudt-unit" ELSE "icudt"
WantedPath(a) ==
    IF a.fn = "uatmufmt_getTimePattern"
    THEN <<"durationUnits",
           CASE a.type = "UATIMEUNITTIMEPAT_HM" -> "hm"
             [] a.type = "UATIMEUNITTIMEPAT_HMS" -> "hms"
             [] OTHER -> "ms">>
    ELSE <<"listPattern",
           CASE a.style = "UATIMEUNITSTYLE_FULL" -> "unit"
             [] a.style = "UATIMEUNITSTYLE_ABBREVIATED" -> "unit-short"
             [] OTHER -> "unit-narrow",
           CASE a.type = "UATIMEUNITLISTPAT_TWO_ONLY" -> "2"
             [] a.type = "UATIMEUNITLISTPAT_END_PIECE" -> "end"
             [] a.type = "UATIMEUNITLISTPAT_MIDDLE_PIECE" -> "middle"
             [] OTHER -> "start">>

\* the positions in the locale's chain whose own data holds the whole path
Holders(st, a) ==
    LET ch == Chain(a.locale)
    IN {i \in 1..Len(ch) : \E e \in Data : /\ e.store = st /\ e.pkg = WantedPackage(a)
                                           /\ e.loc = ch[i] /\ e.path = WantedPath(a)}
Resolves(st, a) == Holders(st, a) # {}
\* the nearest locale of the chain that holds the path, and its string
Nearest(st, a) ==
    Chain(a.locale)[CHOOSE i \in Holders(st, a) : \A j \in Holders(st, a) : i <= j]
Pattern(st, a) ==
    (CHOOSE e \in Data : /\ e.store = st /\ e.pkg = WantedPackage(a)
                         /\ e.loc = Nearest(st, a) /\ e.path = WantedPath(a)).str

Done(c) == pc[c] = "done"
EnteredOk(c) == U_SUCCESS(note[c].entry)
\* a completed call that went through validation and selector mapping and
\* whose pattern exists somewhere in the chain
Resolved(c) ==
    /\ Done(c) /\ EnteredOk(c) /\ ValidBuffer(arg[c]) /\ ValidSelector(arg[c])
    /\ Resolves(store, arg[c])
Untouched(c) == buf[c] = FreshBuf(arg[c].result)

\* C1: sufficient capacity. A call of either function entered with a success
\* status and a non-null buffer of capacity greater than the length L of the
\* pattern it resolves returns L, leaves the L code units of the pattern and a
\* terminator at index L (inside the capacity) in the buffer, and ends with a
\* non-failure status; the pattern is the string at the wanted key path
\* (durationUnits/<hm|hms|ms> in the unit data for the time pattern).
C1_SufficientCapacity ==
    \A c \in Callers :
        (Resolved(c) /\ arg[c].result = "BUF" /\ arg[c].cap > Len(Pattern(store, arg[c])))
        => LET P == Pattern(store, arg[c])
               L == Len(P)
           IN /\ ret[c] = L
              /\ SubSeq(buf[c].mem, 1, L) = P
              /\ L + 1 <= arg[c].cap
              /\ buf[c].mem[L + 1] = 0
              /\ ~buf[c].fault
              /\ U_SUCCESS(status[c])

C1_Witness ==
    \E c \in Callers :
        /\ Resolved(c) /\ arg[c].fn = "uatmufmt_getTimePattern"
        /\ arg[c].locale = "en" /\ arg[c].type = "UATIMEUNITTIMEPAT_HM"
        /\ arg[c].result = "BUF" /\ arg[c].cap = 3
        /\ ret[c] = 2 /\ buf[c].mem = <<8, 9, 0>>

\* C2: a call of either function entered with a status that signals failure,
\* whatever its other arguments, returns 0, leaves the status as it was on
\* entry, calls no resource function (no bundle is opened, no statement past
\* the entry check runs) and writes nothing to the buffer; this includes a
\* failure status left by an earlier call of these functions.
C2_FailedOnEntry ==
    \A c \in Callers :
        (pc[c] \notin {"idle", "held"} /\ U_FAILURE(note[c].entry))
        => /\ pc[c] \in {"entry", "done"}
           /\ status[c] = note[c].entry
           /\ note[c].opens = 0 /\ note[c].opened = 0
           /\ loc[c] = NoLocals
           /\ Untouched(c)
           /\ ret[c] = 0

C2_Witness ==
    \E c \in Callers :
        /\ Done(c) /\ note[c].entry = U_BUFFER_OVERFLOW_ERROR
        /\ status[c] = U_BUFFER_OVERFLOW_ERROR
        /\ arg[c].result = "BUF" /\ arg[c].cap = 3 /\ ValidSelector(arg[c])
        /\ Resolves(store, arg[c]) /\ ret[c] = 0

\* C3 as claimed: a call with an invalid selector always ends with the
\* invalid-argument status.
C3_AsClaimed ==
    \A c \in Callers :
        (Done(c) /\ ~ValidSelector(arg[c])) => status[c] = U_ILLEGAL_ARGUMENT_ERROR

\* C3: a call entered with a non-failure status and an invalid selector (a
\* pattern kind other than HM, HMS, MS; a style other than FULL, ABBREVIATED,
\* NARROW, SHORTER; or a list position other than TWO_ONLY, END_PIECE,
\* MIDDLE_PIECE, START_PIECE, one of them being enough) ends with the
\* invalid-argument status, for every locale and data installation, returns 0
\* and opens no bundle.
C3_InvalidSelector ==
    \A c \in Callers :
        (Done(c) /\ EnteredOk(c) /\ ~ValidSelector(arg[c]))
        => /\ status[c] = U_ILLEGAL_ARGUMENT_ERROR
           /\ ret[c] = 0
           /\ note[c].opens = 0

C3_Witness ==
    \E c \in Callers :
        /\ Done(c) /\ EnteredOk(c) /\ ValidBuffer(arg[c])
        /\ arg[c].fn = "uatmufmt_getListPattern"
        /\ arg[c].style = "UATIMEUNITSTYLE_FULL"
        /\ arg[c].type = "UATIMEUNITLISTPAT_COUNT"
        /\ status[c] = U_ILLEGAL_ARGUMENT_ERROR

PastValidation == {"select", "open", "descend1", "descend2", "getstr", "copy",
                   "close", "terminate"}

\* C4 as claimed: a null buffer with a non-zero capacity, and a non-null
\* buffer with a negative capacity, yield the invalid-argument status.
C4_AsClaimed ==
    \A c \in Callers :
        (Done(c) /\ ~ValidBuffer(arg[c])) => status[c] = U_ILLEGAL_ARGUMENT_ERROR

\* C4: in a call entered with a non-failure status, a null buffer with a
\* non-zero capacity (positive or negative) and a non-null buffer with a
\* negative capacity yield the invalid-argument status (the call returns 0
\* before any selector is mapped); a null buffer with capacity 0 and a
\* non-null buffer with any capacity >= 0 pass validation: the call goes on to
\* the selector mapping and, for a valid selector, to the lookup.
C4_BufferValidation ==
    \A c \in Callers :
        /\ (pc[c] \in PastValidation) => (ValidBuffer(arg[c]) /\ EnteredOk(c))
        /\ (Done(c) /\ EnteredOk(c) /\ ~ValidBuffer(arg[c]))
           => /\ status[c] = U_ILLEGAL_ARGUMENT_ERROR
              /\ ret[c] = 0
              /\ loc[c] = NoLocals
              /\ note[c].opens = 0
        /\ (Done(c) /\ EnteredOk(c) /\ ValidBuffer(arg[c]))
           => /\ ValidSelector(arg[c]) => note[c].opens = 1
              /\ status[c] = U_ILLEGAL_ARGUMENT_ERROR => ~ValidSelector(arg[c])

C4_Witness ==
    \E c \in Callers :
        /\ Done(c) /\ EnteredOk(c)
        /\ arg[c].result = "NULL" /\ arg[c].cap = 0 /\ ValidSelector(arg[c])
        /\ note[c].opens = 1 /\ ret[c] = 2


\* the buffer a call leaves when it copies n units of P and, if term, a NUL at Len(P)
Filled(result, P, n, term) ==
    IF result = "NULL" THEN <<>>
    ELSE [i \in 1..MaxCap |->
            IF i <= n THEN P[i]
            ELSE IF term /\ i = Len(P) + 1 THEN 0
            ELSE -1]
Min(a, b) == IF a <= b THEN a ELSE b

\* C5 as claimed: after a zero-capacity call that resolves a pattern of length
\* L, a second call with the same selectors and a buffer of capacity L returns
\* L and holds the pattern.
C5_AsClaimed ==
    \A c \in Callers :
        (Done(c) /\ pre[c].on /\ U_SUCCESS(pre[c].entry)
         /\ ValidSelector(arg[c]) /\ Resolves(store, arg[c]))
        => /\ pre[c].ret = Len(Pattern(store, arg[c]))
           /\ ret[c] = pre[c].ret
           /\ SubSeq(buf[c].mem, 1, pre[c].ret) = Pattern(store, arg[c])

\* C5: preflight idempotence. For a valid (locale, selector) whose pattern
\* resolves: a zero-capacity call entered with a non-failure status returns
\* the length L; a second call with a buffer of capacity L, provided it is
\* entered with a non-failure status (the caller has reset the buffer-overflow
\* status the preflight leaves when L > 0), returns L too and leaves in the
\* buffer the same L code units as a single call with ample capacity, which
\* returns L as well.
C5_PreflightIdempotence ==
    \A c \in Callers :
        LET P == Pattern(store, arg[c])
        IN /\ (Resolved(c) /\ arg[c].cap = 0) => ret[c] = Len(P)
           /\ (Resolved(c) /\ pre[c].on /\ U_SUCCESS(pre[c].entry))
              => /\ pre[c].ret = Len(P) /\ arg[c].cap = Len(P)
                 /\ ret[c] = Len(P)
                 /\ SubSeq(buf[c].mem, 1, Len(P)) = P
           /\ (Resolved(c) /\ arg[c].result = "BUF" /\ arg[c].cap > Len(P))
              => ret[c] = Len(P) /\ SubSeq(buf[c].mem, 1, Len(P)) = P

C5_Witness ==
    \E c \in Callers :
        /\ Resolved(c) /\ pre[c].on /\ U_SUCCESS(pre[c].entry)
        /\ pre[c].ret = 2 /\ arg[c].cap = 2 /\ ret[c] = 2
        /\ arg[c].fn = "uatmufmt_getListPattern"
        /\ buf[c].mem = <<19, 20, -1>>
        /\ status[c] = U_STRING_NOT_TERMINATED_WARNING

\* the lookup of a completed call found a string: the locals hold it
Found(c) == loc[c].resPtr # <<>>

\* C6: locale fallback. In a call that reaches the lookup, the string found
\* is that of the nearest locale of the chain (the locale, its parent, ...,
\* root) whose data holds the whole key path, whether the miss is at the
\* table key, the style key or the leaf key, one or more levels up; the call
\* ends with the missing-resource status exactly when no locale of the chain
\* down to root holds the path.
C6_LocaleFallback ==
    \A c \in Callers :
        (Done(c) /\ EnteredOk(c) /\ ValidBuffer(arg[c]) /\ ValidSelector(arg[c]))
        => /\ Resolves(store, arg[c])
              => /\ Found(c)
                 /\ loc[c].resPtr = CString(Pattern(store, arg[c]))
                 /\ loc[c].resLen = Len(Pattern(store, arg[c]))
                 /\ ret[c] = Len(Pattern(store, arg[c]))
                 /\ status[c] \notin {U_MISSING_RESOURCE_ERROR, U_RESOURCE_TYPE_MISMATCH,
                                      U_ILLEGAL_ARGUMENT_ERROR}
           /\ ~Resolves(store, arg[c])
              => /\ ~Found(c)
                 /\ status[c] = U_MISSING_RESOURCE_ERROR

\* two levels up, past a child that defines the first table only and a parent
\* that defines the enclosing table without the leaf
C6_Witness ==
    \E c \in Callers :
        /\ Resolved(c) /\ arg[c].fn = "uatmufmt_getListPattern"
        /\ arg[c].locale = "en_US" /\ arg[c].style = "UATIMEUNITSTYLE_FULL"
        /\ arg[c].type = "UATIMEUNITLISTPAT_END_PIECE"
        /\ Nearest(store, arg[c]) = "root"
        /\ HasPath(store, "icudt", "en_US", <<"listPattern">>)
        /\ ~HasPath(store, "icudt", "en_US", <<"listPattern", "unit">>)
        /\ HasPath(store, "icudt", "en", <<"listPattern", "unit">>)
        /\ loc[c].resPtr = <<11, 12, 0>>
        /\ arg[c].cap = 3 /\ buf[c].mem = <<11, 12, 0>>

InCall(c) == pc[c] \notin {"idle", "done", "held"}

\* C7: no partial writes on failure. A call that ends with the invalid-
\* argument status or with a resolution failure (the bundle cannot be opened,
\* or a key is missing after fallback at any step) returns 0 and leaves every
\* element of the buffer as it was on entry; and a failure code set by one
\* statement of a call is not replaced by a later statement of that call.
C7_NoPartialWrites ==
    /\ [](\A c \in Callers :
            (Done(c) /\ status[c] \in {U_ILLEGAL_ARGUMENT_ERROR, U_MISSING_RESOURCE_ERROR,
                                       U_RESOURCE_TYPE_MISMATCH})
            => ret[c] = 0 /\ Untouched(c))
    /\ [][\A c \in Callers :
            (InCall(c) /\ U_FAILURE(status[c])) => status'[c] = status[c]]_vars

\* a key missing at the first descent, with a buffer that could have held data
C7_Witness ==
    \E c \in Callers :
        /\ Done(c) /\ EnteredOk(c) /\ store = "bare"
        /\ arg[c].fn = "uatmufmt_getListPattern" /\ ValidSelector(arg[c])
        /\ arg[c].result = "BUF" /\ arg[c].cap = 3
        /\ note[c].opened = 1
        /\ status[c] = U_MISSING_RESOURCE_ERROR /\ ret[c] = 0 /\ Untouched(c)

\* the status a lookup ends with, before the string is copied out
LookupStatus(st, a, entry) ==
    IF Nearest(st, a) = a.locale THEN entry
    ELSE IF Nearest(st, a) = "root" THEN U_USING_DEFAULT_WARNING
    ELSE U_USING_FALLBACK_WARNING

\* the outcome of a list-pattern call, from the data at
\* listPattern/<styleKey>/<positionKey> of the default package
ListOutcome(st, a, entry) ==
    IF U_FAILURE(entry)
    THEN [ret |-> 0, mem |-> FreshBuf(a.result).mem, status |-> entry]
    ELSE IF ~ValidBuffer(a) \/ ~ValidSelector(a)
    THEN [ret |-> 0, mem |-> FreshBuf(a.result).mem, status |-> U_ILLEGAL_ARGUMENT_ERROR]
    ELSE IF ~Resolves(st, a)
    THEN [ret |-> 0, mem |-> FreshBuf(a.result).mem, status |-> U_MISSING_RESOURCE_ERROR]
    ELSE LET P == Pattern(st, a)
             ls == LookupStatus(st, a, entry)
         IN [ret |-> Len(P),
             mem |-> Filled(a.result, P, Min(a.cap, Len(P)), a.cap > Len(P)),
             status |-> IF a.cap > Len(P)
                        THEN (IF ls = U_STRING_NOT_TERMINATED_WARNING
                              THEN U_ZERO_ERROR ELSE ls)
                        ELSE IF a.cap = Len(P) THEN U_STRING_NOT_TERMINATED_WARNING
                        ELSE U_BUFFER_OVERFLOW_ERROR]

Narrowed(a) ==
    IF a.style = "UATIMEUNITSTYLE_SHORTER"
    THEN [a EXCEPT !.style = "UATIMEUNITSTYLE_NARROW"] ELSE a

\* C8: uatmufmt_getListPattern reads listPattern/<styleKey>/<positionKey> of
\* the default package (FULL -> "unit", ABBREVIATED -> "unit-short", NARROW and
\* SHORTER -> "unit-narrow"; TWO_ONLY -> "2", END_PIECE -> "end", MIDDLE_PIECE
\* -> "middle", START_PIECE -> "start"): every call's returned length, buffer
\* and final status are those the data at that path give, so that a call
\* with style SHORTER has the outcome of the same call with style NARROW,
\* whatever the locale, position, buffer, capacity and entry status.
C8_ListKeyPath ==
    \A c \in Callers :
        (Done(c) /\ arg[c].fn = "uatmufmt_getListPattern")
        => /\ [ret |-> ret[c], mem |-> buf[c].mem, status |-> status[c]]
                = ListOutcome(store, Narrowed(arg[c]), note[c].entry)
           /\ ~buf[c].fault
           /\ note[c].opened = 1 => loc[c].rb # NULL /\ note[c].opens = 1

C8_Witness ==
    \E c \in Callers :
        /\ Resolved(c) /\ arg[c].fn = "uatmufmt_getListPattern"
        /\ arg[c].style = "UATIMEUNITSTYLE_SHORTER"
        /\ arg[c].type = "UATIMEUNITLISTPAT_TWO_ONLY" /\ arg[c].locale = "en_US"
        /\ arg[c].result = "BUF" /\ arg[c].cap = 2
        /\ ret[c] = 1 /\ buf[c].mem = <<15, 0, -1>>

OwnedBy(c) == {h \in Handles : heap[h].open /\ heap[h].owner = c}
HoldsHandle == {"descend1", "descend2", "getstr", "copy", "close"}

\* C9: resource-handle lifecycle, for any number of concurrent calls. No
\* handle is used or closed while not open or by a call that does not own it;
\* a call holds at most the one handle it opened, only between ures_open and
\* ures_close; when it returns it has closed every handle it opened exactly
\* once and owns none; a call that returns before the lookup (failed status
\* on entry, invalid argument) has called no resource function; and no handle
\* is open once every call has returned.
C9_HandleLifecycle ==
    /\ ~misuse
    /\ \A c \in Callers :
        /\ note[c].opened <= 1 /\ note[c].opened <= note[c].opens
        /\ note[c].closed <= note[c].opened
        /\ OwnedBy(c) # {}
           => /\ pc[c] \in HoldsHandle
              /\ OwnedBy(c) = {loc[c].rb}
              /\ note[c].opened = 1 /\ note[c].closed = 0
        /\ pc[c] \in {"terminate", "done"} => note[c].closed = note[c].opened
        /\ (pc[c] \in HoldsHandle /\ note[c].opened = 1) => OwnedBy(c) = {loc[c].rb}
        /\ (Done(c) /\ (~EnteredOk(c) \/ ~ValidBuffer(arg[c]) \/ ~ValidSelector(arg[c])))
           => note[c].opens = 0 /\ note[c].opened = 0
        /\ (Done(c) /\ EnteredOk(c) /\ ValidBuffer(arg[c]) /\ ValidSelector(arg[c]))
           => note[c].opens = 1 /\ (note[c].opened = 1 <=> store # "nodata")
    /\ (\A c \in Callers : ~InCall(c)) => \A h \in Handles : ~heap[h].open

\* two calls hold a handle each at the same time, one of them past a failed descent
C9_Witness ==
    \E c, d \in Callers :
        /\ c # d /\ OwnedBy(c) # {} /\ OwnedBy(d) # {}
        /\ pc[c] = "close" /\ U_FAILURE(status[c])
        /\ pc[d] = "getstr" /\ U_SUCCESS(status[d])

\* C10: a resolved lookup against capacity C and pattern length L. The call
\* returns L; it copies min(C, L) code units of the pattern and writes nothing
\* at an index >= C; with C > L a terminator is at index L and the status is
\* no failure; with C = L there is no terminator and the status is the
\* string-not-terminated warning; with C < L (the zero-capacity preflight of a
\* non-empty pattern included, buffer null or not) there is no terminator and
\* the status is the buffer-overflow error, which the entry check of a
\* following call takes as failed.
C10_CapacityOutcome ==
    \A c \in Callers :
        Resolved(c)
        => LET P == Pattern(store, arg[c])
               L == Len(P)
               C == arg[c].cap
           IN /\ ret[c] = L
              /\ ~buf[c].fault
              /\ buf[c].mem = Filled(arg[c].result, P, Min(C, L), C > L)
              /\ \A i \in 1..Len(buf[c].mem) : i > C => buf[c].mem[i] = -1
              /\ C > L => U_SUCCESS(status[c]) /\ buf[c].mem[L + 1] = 0
              /\ C = L => status[c] = U_STRING_NOT_TERMINATED_WARNING
              /\ C < L => /\ status[c] = U_BUFFER_OVERFLOW_ERROR
                          /\ EntryFailed(status[c])

C10_Witness ==
    \E c \in Callers :
        /\ Resolved(c) /\ arg[c].result = "BUF" /\ arg[c].cap = 1
        /\ Len(Pattern(store, arg[c])) = 2
        /\ ret[c] = 2 /\ buf[c].mem = <<11, -1, -1>>
        /\ status[c] = U_BUFFER_OVERFLOW_ERROR

====
